---- MODULE Spec2Model ----
(***************************************************************************)
(* Campaign dispatch and delivery tracking of the Mini CRM backend:        *)
(* audience resolution (models/Campaign.js), campaign launch and the       *)
(* dispatcher's send loop (routes/campaigns.js), the simulated vendor and  *)
(* the delivery-receipt reconciler (routes/vendor.js) and the delivery log *)
(* (models/CommunicationLog.js).                                           *)
(*                                                                         *)
(* The persistence layer is Mongoose: a document loaded by findOne or      *)
(* findById is a private in-memory copy; save() writes only the paths the  *)
(* holder changed ($set of each modified path) and never refreshes the     *)
(* copy.  Every await is a point where other callbacks may run.            *)
(***************************************************************************)
EXTENDS Integers, Sequences, FiniteSets, TLC

\* ------------------------------------------------------------------ bounds
MaxCampaigns == 1  \* campaigns created over a run
MaxLaunch    == 2  \* launches started over a run
MaxWebhook   == 1  \* receipts posted to the webhook / batch endpoint over a run
MaxFailures  == 3  \* failure receipts posted over a run of SpecRetry
MaxTrack     == 1  \* open/click tracking requests over a run
MaxHandlers  == 1  \* receipt and tracking callbacks in flight at once
MaxClock     == 1  \* clock ticks over a run of SpecRetry
MaxConds     == 2  \* conditions in a previewed audience rule
MaxUpdate    == 1  \* campaign update requests over a run
MaxDelete    == 1  \* customers deleted over a run
MaxItems     == 5  \* items in the body of a batch-update request
MaxTokens    == 3  \* tokens in a message template

\* ------------------------------------------------------- program constants
MaxRetry    == 3  \* communicationLogSchema.retryCount max
BaseDelay   == 5  \* minutes, markAsFailed

\* ------------------------------------------------------------------- state
VARIABLES
    customers,   \* Customer collection: id -> stored document
    campaigns,   \* Campaign collection: id -> persisted document
    logs,        \* CommunicationLog collection: messageId -> persisted document
    launches,    \* launch requests / dispatchers: slot -> position and private copies
    updates,     \* campaign update requests in flight: slot -> position and body
    handlers,    \* receipt and tracking callbacks in flight: slot -> position and copies
    timers,      \* pending setTimeout callbacks
    now,         \* wall clock, minutes
    used,        \* requests issued so far, per kind
    preview,     \* response of the last POST /preview
    recorded,    \* history: updateStats calls completed, per campaign and counter
    hist,        \* history: receipts applied to each log entry, in order
    sendRes,     \* history: outcome of the dispatcher's vendor call per messageId
    thrown,      \* history: calls of processDeliveryReceipt that threw
    batch,       \* the POST /vendor/batch-update request: position and results
    message      \* the last personalizeMessage call: template, customer, result

vars == <<customers, campaigns, logs, launches, updates, handlers, timers, now,
          used, preview, recorded, hist, sendRes, thrown, batch, message>>

\* ------------------------------------------------------------- customers
\* Stored fields of a customer document.  city is optional (no default);
\* daysSinceLastOrder and valueCategory are virtuals and are never stored.
CustomerIds == 1..4

InitialCustomers ==
    ( 1 :> [totalSpent |-> 500,   visitCount |-> 1, status |-> "active",
            city |-> "Pune"] )
 @@ ( 2 :> [totalSpent |-> 5000,  visitCount |-> 3, status |-> "inactive"] )
 @@ ( 3 :> [totalSpent |-> 15000, visitCount |-> 8, status |-> "active",
            city |-> "Delhi"] )
 @@ ( 4 :> [totalSpent |-> 60000, visitCount |-> 8, status |-> "churned",
            city |-> "Pune"] )

\* customerSchema.virtual('valueCategory')
valueCategory(c) ==
    IF c.totalSpent >= 50000 THEN "premium"
    ELSE IF c.totalSpent >= 10000 THEN "high-value"
    ELSE IF c.totalSpent >= 1000 THEN "regular"
    ELSE "new"

\* ------------------------------------------------------ audience resolver
Fields == {"totalSpent", "visitCount", "daysSinceLastOrder", "status", "city",
           "valueCategory"}
Operators == {"gt", "gte", "lt", "lte", "eq", "ne", "in", "nin", "exists"}

NoCons == [op |-> "none", value |-> 0]

\* buildConditionQuery: the one-key object { [field]: constraint }.
buildConditionQuery(condition) ==
    [field |-> condition.field,
     cons  |-> CASE condition.operator = "gt"     -> [op |-> "$gt",  value |-> condition.value]
                 [] condition.operator = "gte"    -> [op |-> "$gte", value |-> condition.value]
                 [] condition.operator = "lt"     -> [op |-> "$lt",  value |-> condition.value]
                 [] condition.operator = "lte"    -> [op |-> "$lte", value |-> condition.value]
                 [] condition.operator = "eq"     -> [op |-> "$eq",  value |-> condition.value]
                 [] condition.operator = "ne"     -> [op |-> "$ne",  value |-> condition.value]
                 [] condition.operator = "in"     -> [op |-> "$in",  value |-> condition.value]
                 [] condition.operator = "nin"    -> [op |-> "$nin", value |-> condition.value]
                 [] condition.operator = "exists" -> [op |-> "$exists", value |-> condition.value]
                 [] OTHER                         -> [op |-> "$eq",  value |-> condition.value]]

\* MongoDB's match of one stored document against one field constraint.  A
\* field the document does not store matches only $ne, $nin and $exists:false.
MatchField(doc, field, cons) ==
    LET has == field \in DOMAIN doc IN
    CASE cons.op = "none"    -> TRUE
      [] cons.op = "$gt"     -> has /\ doc[field] >  cons.value
      [] cons.op = "$gte"    -> has /\ doc[field] >= cons.value
      [] cons.op = "$lt"     -> has /\ doc[field] <  cons.value
      [] cons.op = "$lte"    -> has /\ doc[field] <= cons.value
      [] cons.op = "$eq"     -> has /\ doc[field] =  cons.value
      [] cons.op = "$ne"     -> ~has \/ doc[field] # cons.value
      [] cons.op = "$in"     -> has /\ doc[field] \in cons.value
      [] cons.op = "$nin"    -> ~has \/ doc[field] \notin cons.value
      [] cons.op = "$exists" -> has = cons.value

\* A filter object { field: constraint, ... }: every key must match.
MatchQuery(doc, query) == \A f \in Fields : MatchField(doc, f, query[f])

\* Object.assign(query, conditionQuery) over conditions 1..n, in order: a
\* later condition on a field replaces the earlier key.
RECURSIVE AssignAll(_, _)
AssignAll(conds, n) ==
    IF n = 0 THEN [f \in Fields |-> NoCons]
    ELSE LET q == buildConditionQuery(conds[n])
         IN  [AssignAll(conds, n - 1) EXCEPT ![q.field] = q.cons]

\* Campaign.evaluateAudience against a customer collection: the ids found.
evaluateAudienceIn(docs, rules) ==
    IF Len(rules.conditions) = 0 THEN {}
    ELSE IF rules.logic = "OR"
    THEN {id \in DOMAIN docs :
            \E i \in 1..Len(rules.conditions) :
               LET q == buildConditionQuery(rules.conditions[i])
               IN  MatchField(docs[id], q.field, q.cons)}
    ELSE {id \in DOMAIN docs :
            MatchQuery(docs[id], AssignAll(rules.conditions, Len(rules.conditions)))}

evaluateAudience(rules) == evaluateAudienceIn(customers, rules)

\* The chains on conditions.*.field, conditions.*.operator and logic alone:
\* the wildcard chains find nothing to check in an empty conditions array.
validateConditionsOnly(rules) ==
    /\ \A i \in 1..Len(rules.conditions) :
          /\ rules.conditions[i].field \in Fields
          /\ rules.conditions[i].operator \in Operators
    /\ rules.logic \in {"AND", "OR"}

\* validateCampaign and the validators of POST /preview, the chains on
\* audienceRules: validationResult(req) is empty.
validateCampaign(rules) ==
    /\ Len(rules.conditions) >= 1
    /\ \A i \in 1..Len(rules.conditions) :
          /\ rules.conditions[i].field \in Fields
          /\ rules.conditions[i].operator \in Operators
    /\ rules.logic \in {"AND", "OR"}

\* Conditions a preview request may carry (each accepted by the route's
\* validators), with values of the type stored in the field.
PreviewConds ==
    << [field |-> "totalSpent", operator |-> "gt",  value |-> 1000],
       [field |-> "totalSpent", operator |-> "lt",  value |-> 20000],
       [field |-> "totalSpent", operator |-> "gte", value |-> 15000],
       [field |-> "visitCount", operator |-> "lte", value |-> 3],
       [field |-> "visitCount", operator |-> "eq",  value |-> 8],
       [field |-> "status",     operator |-> "ne",  value |-> "churned"],
       [field |-> "status",     operator |-> "in",  value |-> {"active", "churned"}],
       [field |-> "city",       operator |-> "exists", value |-> TRUE],
       [field |-> "city",       operator |-> "nin", value |-> {"Pune"}],
       [field |-> "valueCategory", operator |-> "eq", value |-> "premium"] >>

RECURSIVE SeqsUpTo(_, _)
SeqsUpTo(S, n) ==
    IF n = 0 THEN {<<>>}
    ELSE LET shorter == SeqsUpTo(S, n - 1)
         IN  shorter \cup {Append(s, x) : s \in {t \in shorter : Len(t) = n - 1}, x \in S}

\* The choices of 1..MaxConds conditions, as positions in PreviewConds.
PreviewChoices == SeqsUpTo(1..Len(PreviewConds), MaxConds) \ {<<>>}

PreviewRule(choice, logic) ==
    [conditions |-> [i \in 1..Len(choice) |-> PreviewConds[choice[i]]], logic |-> logic]

NoPreview == [rules |-> [conditions |-> <<>>, logic |-> "AND"], audience |-> {},
              done |-> FALSE]

\* --------------------------------------------------------------- documents
EmptyStats == [sent |-> 0, delivered |-> 0, failed |-> 0, pending |-> 0]

NoRules == [conditions |-> <<>>, logic |-> "AND"]

\* A Campaign document with the schema defaults; -1 stands for an unset date.
NewCampaign(rules, size) ==
    [status |-> "draft", audienceRules |-> rules, audienceSize |-> size,
     stats |-> EmptyStats, startedAt |-> -1, completedAt |-> -1]

NoCampaign == NewCampaign(NoRules, 0)

\* A CommunicationLog document as launchCampaign builds it, with the schema
\* defaults (status pending, retryCount 0).
NewLog(cid, customerId) ==
    [campaignId |-> cid, customerId |-> customerId, status |-> "pending",
     retryCount |-> 0, nextRetryAt |-> -1]

NoLog == NewLog(0, 0)

\* The rule the campaigns of the dispatch model are created with: it
\* resolves to customer 1.
DispatchRules ==
    { [conditions |-> <<[field |-> "visitCount", operator |-> "lte", value |-> 1]>>,
       logic |-> "AND"] }

\* A rule that resolves to two customers (3 and 4).
PairRules ==
    { [conditions |-> <<[field |-> "visitCount", operator |-> "eq", value |-> 8]>>,
       logic |-> "AND"] }

\* A rule that resolves to nobody.
EmptyRules ==
    { [conditions |-> <<[field |-> "visitCount", operator |-> "gt", value |-> 8]>>,
       logic |-> "AND"] }

\* Audience rules a create, update or preview request may carry: four the
\* validators accept and five they refuse (no condition, a field or an
\* operator outside the lists, alone or after a good condition, a logic
\* outside AND / OR).
RequestRules ==
    << [conditions |-> <<[field |-> "visitCount", operator |-> "lte", value |-> 1]>>,
        logic |-> "AND"],
       [conditions |-> <<[field |-> "visitCount", operator |-> "eq", value |-> 8]>>,
        logic |-> "AND"],
       [conditions |-> <<[field |-> "totalSpent", operator |-> "gte", value |-> 15000],
                         [field |-> "city", operator |-> "exists", value |-> FALSE]>>,
        logic |-> "OR"],
       [conditions |-> <<[field |-> "status", operator |-> "ne", value |-> "churned"]>>,
        logic |-> "AND"],
       [conditions |-> <<>>, logic |-> "AND"],
       [conditions |-> <<[field |-> "age", operator |-> "gt", value |-> 30]>>,
        logic |-> "AND"],
       [conditions |-> <<[field |-> "totalSpent", operator |-> "contains", value |-> 5]>>,
        logic |-> "AND"],
       [conditions |-> <<[field |-> "visitCount", operator |-> "eq", value |-> 8],
                         [field |-> "email", operator |-> "regex", value |-> 1]>>,
        logic |-> "OR"],
       [conditions |-> <<[field |-> "visitCount", operator |-> "eq", value |-> 8]>>,
        logic |-> "XOR"] >>

ReceiptStatuses == {"sent", "delivered", "failed", "bounced"}

MaxLogs == MaxLaunch * Cardinality(CustomerIds)

TimerKinds == {"sent", "failed", "opened", "clicked"}

\* The pending setTimeout callbacks: <<kind, messageId>> -> how many are set.
TimerCount(t, key) == IF key \in DOMAIN t THEN t[key] ELSE 0

SetTimer(t, key) ==
    [k \in DOMAIN t \cup {key} |-> IF k = key THEN TimerCount(t, key) + 1 ELSE t[k]]

ClearTimer(t, key) ==
    [k \in {x \in DOMAIN t : x # key \/ t[x] > 1} |-> IF k = key THEN t[k] - 1 ELSE t[k]]

RECURSIVE SetToSeq(_)
SetToSeq(S) ==
    IF S = {} THEN <<>>
    ELSE LET m == CHOOSE x \in S : \A y \in S : x <= y
         IN  <<m>> \o SetToSeq(S \ {m})

\* ------------------------------------------------- Mongoose document save
\* save() issues $set for the paths whose value the holder changed since it
\* loaded the document; the other paths of the stored document are untouched.
SaveCampaign(stored, old, new) ==
    [stored EXCEPT
        !.status      = IF new.status # old.status THEN new.status ELSE @,
        !.startedAt   = IF new.startedAt # old.startedAt THEN new.startedAt ELSE @,
        !.completedAt = IF new.completedAt # old.completedAt THEN new.completedAt ELSE @,
        !.stats       = [k \in DOMAIN @ |->
                            IF new.stats[k] # old.stats[k] THEN new.stats[k] ELSE @[k]]]

SaveLog(stored, old, new) ==
    [stored EXCEPT
        !.status      = IF new.status # old.status THEN new.status ELSE @,
        !.retryCount  = IF new.retryCount # old.retryCount THEN new.retryCount ELSE @,
        !.nextRetryAt = IF new.nextRetryAt # old.nextRetryAt THEN new.nextRetryAt ELSE @]

\* Schema validation run by save(): retryCount has max 3.
LogValid(doc) == doc.retryCount <= MaxRetry

\* ------------------------------------------------- Campaign model methods
\* campaignSchema.methods.updateStats, the in-memory part
updateStats(doc, status) ==
    IF status \in DOMAIN doc.stats
    THEN [doc EXCEPT !.stats[status] = @ + 1]
    ELSE doc

\* campaignSchema.methods.start
start(doc, t) == [doc EXCEPT !.status = "running", !.startedAt = t]

\* campaignSchema.methods.complete
complete(doc, t) == [doc EXCEPT !.status = "completed", !.completedAt = t]

\* ------------------------------------------ CommunicationLog model methods
RECURSIVE Pow2(_)
Pow2(n) == IF n <= 0 THEN 1 ELSE 2 * Pow2(n - 1)

markAsSent(doc, t) == [doc EXCEPT !.status = "sent"]

markAsDelivered(doc, t) == [doc EXCEPT !.status = "delivered"]

\* markAsFailed with the delays its comment names (5, 10, 20 minutes).
markAsFailedFromBase(doc, t) ==
    LET count == doc.retryCount + 1
        retryDelayMinutes == Pow2(count - 1) * BaseDelay
    IN  [doc EXCEPT !.status = "failed", !.retryCount = count,
                    !.nextRetryAt = t + retryDelayMinutes]

markAsFailed(doc, t) ==
    LET count == doc.retryCount + 1
        retryDelayMinutes == Pow2(count) * BaseDelay
    IN  [doc EXCEPT !.status = "failed", !.retryCount = count,
                    !.nextRetryAt = t + retryDelayMinutes]

markAsOpened(doc, t) ==
    IF doc.status = "delivered" THEN [doc EXCEPT !.status = "opened"] ELSE doc

markAsClicked(doc, t) ==
    IF doc.status \in {"delivered", "opened"} THEN [doc EXCEPT !.status = "clicked"]
    ELSE doc

\* ------------------------------------------------------- process records
IdleLaunch == [pc |-> "idle", cid |-> 0, camp |-> NoCampaign, audience |-> <<>>,
               msgs |-> <<>>, i |-> 0, res |-> "none"]

\* dup is history: whether the receipt repeats the one last applied to the entry.
IdleHandler == [pc |-> "idle", kind |-> "none", mid |-> 0, status |-> "none",
                log |-> NoLog, camp |-> NoCampaign, dup |-> FALSE]

\* A PUT /:id request: the campaign it names and the rule of its body.
IdleUpdate == [pc |-> "idle", cid |-> 0, rules |-> NoRules, size |-> 0]

\* POST /vendor/batch-update: the items taken so far (n), the handler slot
\* and item the loop is awaiting, the count of thrown calls when the item
\* began, and the results pushed so far.
IdleBatch == [pc |-> "idle", n |-> 0, h |-> 0, mid |-> 0, status |-> "none",
              base |-> 0, results |-> <<>>,
              summary |-> [total |-> 0, processed |-> 0, errors |-> 0]]

NoMessage == [template |-> <<>>, customer |-> 0, result |-> <<>>, done |-> FALSE]

LaunchSlots  == 1..MaxLaunch
UpdateSlots  == 1..MaxUpdate
HandlerSlots == 1..MaxHandlers

\* The free slot a new request or callback takes.
FreeUpdate(u)  == updates[u].pc = "idle" /\ \A k \in 1..(u - 1) : updates[k].pc # "idle"
FreeLaunch(l)  == launches[l].pc = "idle" /\ \A k \in 1..(l - 1) : launches[k].pc # "idle"
FreeHandler(h) == handlers[h].pc = "idle" /\ \A k \in 1..(h - 1) : handlers[k].pc # "idle"

\* The state after start-up, with room for n callbacks in flight.
InitWith(n) ==
    /\ customers = InitialCustomers
    /\ campaigns = <<>>
    /\ logs = <<>>
    /\ launches = [l \in LaunchSlots |-> IdleLaunch]
    /\ handlers = [h \in 1..n |-> IdleHandler]
    /\ timers = <<>>
    /\ now = 0
    /\ updates = [u \in UpdateSlots |-> IdleUpdate]
    /\ used = [create |-> 0, launch |-> 0, webhook |-> 0, track |-> 0, update |-> 0,
               delete |-> 0]
    /\ preview = NoPreview
    /\ recorded = <<>>
    /\ hist = <<>>
    /\ sendRes = <<>>
    /\ thrown = 0
    /\ batch = IdleBatch
    /\ message = NoMessage

Init == InitWith(MaxHandlers)

\* ----------------------------------------------------------------- clock
Tick ==
    /\ now < MaxClock
    /\ now' = now + 1
    /\ UNCHANGED <<customers, updates, campaigns, logs, launches, handlers, timers, used,
                   preview, recorded, hist, sendRes, thrown, batch,
                   message>>

\* ----------------------------------------------- POST /api/campaigns/preview
Preview(rules) ==
    /\ preview' = IF validateCampaign(rules)
                  THEN [rules |-> rules, audience |-> evaluateAudience(rules),
                        done |-> TRUE]
                  ELSE preview
    /\ UNCHANGED <<customers, updates, campaigns, logs, launches, handlers, timers, now, used,
                   recorded, hist, sendRes, thrown, batch,
                   message>>

\* ------------------------------------------------------ POST /api/campaigns
\* A body that fails validateCampaign is answered 400.  Otherwise create the
\* campaign with the audience size found now; with launch: true the request
\* goes on into launchCampaign with the document it just saved and the
\* audience it just resolved.
CreateCampaign(rules, launch) ==
    /\ used.create < MaxCampaigns
    /\ launch => used.launch < MaxLaunch
    /\ IF ~validateCampaign(rules)
       THEN /\ used' = [used EXCEPT !.create = @ + 1]
            /\ UNCHANGED <<campaigns, recorded, launches>>
       ELSE LET audience == evaluateAudience(rules)
                doc == NewCampaign(rules, Cardinality(audience))
                cid == Len(campaigns) + 1
            IN  /\ campaigns' = Append(campaigns, doc)
                /\ recorded' = Append(recorded, EmptyStats)
                /\ IF launch
                   THEN \E l \in LaunchSlots :
                          /\ FreeLaunch(l)
                          /\ launches' = [launches EXCEPT ![l] =
                                 [IdleLaunch EXCEPT !.pc = "resolved", !.cid = cid,
                                                    !.camp = doc,
                                                    !.audience = SetToSeq(audience)]]
                   ELSE launches' = launches
                /\ used' = [used EXCEPT !.create = @ + 1,
                                        !.launch = IF launch THEN @ + 1 ELSE @]
    /\ UNCHANGED <<customers, updates, logs, handlers, timers, now, preview, hist, sendRes, thrown, batch,
                   message>>

\* ------------------------------------------- POST /api/campaigns/:id/launch
\* The launch route without its draft check.
LaunchRequestUnchecked(l, cid) ==
    /\ used.launch < MaxLaunch
    /\ FreeLaunch(l)
    /\ cid \in 1..Len(campaigns)
    /\ used' = [used EXCEPT !.launch = @ + 1]
    /\ launches' = [launches EXCEPT ![l] =
            [IdleLaunch EXCEPT !.pc = "loaded", !.cid = cid, !.camp = campaigns[cid]]]
    /\ UNCHANGED <<customers, updates, campaigns, logs, handlers, timers, now, preview,
                   recorded, hist, sendRes, thrown, batch,
                   message>>

\* Campaign.findById and the draft check.
LaunchRequest(l, cid) ==
    /\ used.launch < MaxLaunch
    /\ FreeLaunch(l)
    /\ cid \in 1..Len(campaigns)
    /\ used' = [used EXCEPT !.launch = @ + 1]
    /\ IF campaigns[cid].status # "draft"
       THEN launches' = launches
       ELSE launches' = [launches EXCEPT ![l] =
                [IdleLaunch EXCEPT !.pc = "loaded", !.cid = cid, !.camp = campaigns[cid]]]
    /\ UNCHANGED <<customers, updates, campaigns, logs, handlers, timers, now, preview,
                   recorded, hist, sendRes, thrown, batch,
                   message>>

\* Campaign.evaluateAudience(campaign.audienceRules)
LaunchResolve(l) ==
    /\ launches[l].pc = "loaded"
    /\ launches' = [launches EXCEPT
            ![l].pc = "resolved",
            ![l].audience = SetToSeq(evaluateAudience(launches[l].camp.audienceRules))]
    /\ UNCHANGED <<customers, updates, campaigns, logs, handlers, timers, now, used, preview,
                   recorded, hist, sendRes, thrown, batch,
                   message>>

\* launchCampaign: await campaign.start(); with an empty audience the
\* function returns right after it.
launchCampaignStart(l) ==
    /\ launches[l].pc = "resolved"
    /\ LET old == launches[l].camp
           new == start(old, now)
       IN  /\ campaigns' = [campaigns EXCEPT ![launches[l].cid] = SaveCampaign(@, old, new)]
           /\ launches' = [launches EXCEPT ![l] =
                  IF Len(launches[l].audience) = 0 THEN IdleLaunch
                  ELSE [@ EXCEPT !.pc = "started", !.camp = new]]
    /\ UNCHANGED <<customers, updates, logs, handlers, timers, now, used, preview, recorded,
                   hist, sendRes, thrown, batch,
                   message>>

\* launchCampaign handing the batch to the send loop without having inserted it.
launchCampaignSendFirst(l) ==
    /\ launches[l].pc = "started"
    /\ LET aud == launches[l].audience
           base == Len(logs)
       IN  /\ logs' = logs
           /\ hist' = hist \o [i \in 1..Len(aud) |-> <<>>]
           /\ sendRes' = sendRes \o [i \in 1..Len(aud) |-> "none"]
           /\ launches' = [launches EXCEPT
                  ![l].pc = "sending",
                  ![l].msgs = [i \in 1..Len(aud) |-> base + i],
                  ![l].i = 1]
    /\ UNCHANGED <<customers, updates, campaigns, handlers, timers, now, used, preview,
                   recorded,
                   thrown, batch, message>>

\* launchCampaign: CommunicationLog.insertMany(communicationLogs).  Every
\* messageId is fresh (timestamp, index and a random suffix).
launchCampaignInsert(l) ==
    /\ launches[l].pc = "started"
    /\ LET aud == launches[l].audience
           base == Len(logs)
       IN  /\ logs' = logs \o [i \in 1..Len(aud) |-> NewLog(launches[l].cid, aud[i])]
           /\ hist' = hist \o [i \in 1..Len(aud) |-> <<>>]
           /\ sendRes' = sendRes \o [i \in 1..Len(aud) |-> "none"]
           /\ launches' = [launches EXCEPT
                  ![l].pc = "sending",
                  ![l].msgs = [i \in 1..Len(aud) |-> base + i],
                  ![l].i = 1]
    /\ UNCHANGED <<customers, updates, campaigns, handlers, timers, now, used, preview, recorded,
                   thrown, batch, message>>

\* launchCampaign: insertMany rejects (a document fails validation, or the
\* write fails after the first n documents of the ordered batch); the error
\* leaves launchCampaign and the route hands it to next(error).
launchCampaignInsertFails(l, n) ==
    /\ launches[l].pc = "started"
    /\ n \in 0..(Len(launches[l].audience) - 1)
    /\ LET aud == launches[l].audience
       IN  /\ logs' = logs \o [i \in 1..n |-> NewLog(launches[l].cid, aud[i])]
           /\ hist' = hist \o [i \in 1..n |-> <<>>]
           /\ sendRes' = sendRes \o [i \in 1..n |-> "none"]
    /\ launches' = [launches EXCEPT ![l] = IdleLaunch]
    /\ UNCHANGED <<customers, updates, campaigns, handlers, timers, now, used, preview,
                   recorded,
                   thrown, batch, message>>

\* sendMessagesToVendor: axios.post(.../send) for the next message.  The
\* vendor (POST /vendor/send) draws sent or failed, schedules the receipt
\* callback for that outcome and answers 200 either way; "error" is the
\* request failing or timing out before the vendor handled it.
sendMessagesToVendorPost(l, outcome) ==
    /\ launches[l].pc = "sending"
    /\ LET mid == launches[l].msgs[launches[l].i]
       IN  /\ timers' = IF outcome = "error" THEN timers
                        ELSE SetTimer(timers, <<outcome, mid>>)
           /\ sendRes' = [sendRes EXCEPT ![mid] = outcome]
    /\ launches' = [launches EXCEPT ![l].pc = "posted", ![l].res = outcome]
    /\ UNCHANGED <<customers, updates, campaigns, logs, handlers, now, used, preview, recorded,
                   hist,
                   thrown, batch, message>>

\* sendMessagesToVendor: campaign.updateStats('sent') after the response,
\* campaign.updateStats('failed') in the catch block.
sendMessagesToVendorRecord(l) ==
    /\ launches[l].pc = "posted"
    /\ LET status == IF launches[l].res = "error" THEN "failed" ELSE "sent"
           old == launches[l].camp
           new == updateStats(old, status)
           cid == launches[l].cid
       IN  /\ campaigns' = [campaigns EXCEPT ![cid] = SaveCampaign(@, old, new)]
           /\ recorded' = [recorded EXCEPT ![cid][status] = @ + 1]
           /\ launches' = [launches EXCEPT ![l] =
                  IF launches[l].i = Len(launches[l].msgs) THEN IdleLaunch
                  ELSE [@ EXCEPT !.pc = "sending", !.camp = new, !.i = @ + 1,
                                 !.res = "none"]]
    /\ UNCHANGED <<customers, updates, logs, handlers, timers, now, used, preview, hist, sendRes, thrown, batch,
                   message>>

\* ------------------------------------------------- PUT /api/campaigns/:id
\* The validators, Campaign.findById and the draft check.
UpdateRequest(u, cid, rules) ==
    /\ used.update < MaxUpdate
    /\ FreeUpdate(u)
    /\ cid \in 1..Len(campaigns)
    /\ used' = [used EXCEPT !.update = @ + 1]
    /\ updates' = IF validateCampaign(rules) /\ campaigns[cid].status = "draft"
                  THEN [updates EXCEPT ![u] =
                          [IdleUpdate EXCEPT !.pc = "checked", !.cid = cid,
                                             !.rules = rules]]
                  ELSE updates
    /\ UNCHANGED <<customers, campaigns, logs, launches, handlers, timers, now,
                   preview, recorded, hist, sendRes, thrown, batch,
                   message>>

\* req.body.audienceSize = (await Campaign.evaluateAudience(...)).length
UpdateResolve(u) ==
    /\ updates[u].pc = "checked"
    /\ updates' = [updates EXCEPT
            ![u].pc = "resolved",
            ![u].size = Cardinality(evaluateAudience(updates[u].rules))]
    /\ UNCHANGED <<customers, campaigns, logs, launches, handlers, timers, now, used,
                   preview, recorded, hist, sendRes, thrown, batch,
                   message>>

\* Campaign.findByIdAndUpdate(req.params.id, req.body, ...)
UpdateWrite(u) ==
    /\ updates[u].pc = "resolved"
    /\ campaigns' = [campaigns EXCEPT
            ![updates[u].cid].audienceRules = updates[u].rules,
            ![updates[u].cid].audienceSize = updates[u].size]
    /\ updates' = [updates EXCEPT ![u] = IdleUpdate]
    /\ UNCHANGED <<customers, logs, launches, handlers, timers, now, used, preview,
                   recorded, hist, sendRes, thrown, batch,
                   message>>

\* ------------------------------------------------ DELETE /api/customers/:id
DeleteCustomer(id) ==
    /\ used.delete < MaxDelete
    /\ id \in DOMAIN customers
    /\ customers' = [k \in DOMAIN customers \ {id} |-> customers[k]]
    /\ used' = [used EXCEPT !.delete = @ + 1]
    /\ UNCHANGED <<campaigns, logs, launches, updates, handlers, timers, now, preview,
                   recorded, hist, sendRes, thrown, batch,
                   message>>

\* The campaign document is removed from the collection while no request or
\* callback holds a copy of it; its log entries stay.
RemoveCampaign(cid) ==
    /\ cid \in 1..Len(campaigns)
    /\ campaigns[cid].status # "removed"
    /\ \A l \in LaunchSlots : launches[l].cid # cid
    /\ \A h \in DOMAIN handlers : handlers[h].pc \notin {"loaded", "completing"}
    /\ campaigns' = [campaigns EXCEPT ![cid].status = "removed"]
    /\ UNCHANGED <<customers, updates, logs, launches, handlers, timers, now, used, preview,
                   recorded, hist, sendRes, thrown, batch, message>>

\* ------------------------------------------------- processDeliveryReceipt
\* CommunicationLog.findOne({ messageId }) for a receipt; an unknown
\* messageId is logged and the function returns.
BeginReceiptThrows(h, mid, status) ==
    IF mid \in 1..Len(logs)
    THEN /\ handlers' = [handlers EXCEPT ![h] =
               [IdleHandler EXCEPT !.pc = "found", !.kind = "receipt", !.mid = mid,
                                   !.status = status, !.log = logs[mid]]]
         /\ thrown' = thrown
    ELSE /\ handlers' = handlers
         /\ thrown' = thrown + 1

BeginReceipt(h, mid, status) ==
    IF mid \in 1..Len(logs)
    THEN /\ handlers' = [handlers EXCEPT ![h] =
               [IdleHandler EXCEPT !.pc = "found", !.kind = "receipt", !.mid = mid,
                                   !.status = status, !.log = logs[mid]]]
         /\ thrown' = thrown
    ELSE /\ handlers' = handlers
         /\ thrown' = thrown

\* The callback POST /vendor/send scheduled with setTimeout fires.
ReceiptTimer(h, mid, status) ==
    /\ FreeHandler(h)
    /\ status \in {"sent", "failed"}
    /\ TimerCount(timers, <<status, mid>>) > 0
    /\ timers' = ClearTimer(timers, <<status, mid>>)
    /\ BeginReceipt(h, mid, status)
    /\ UNCHANGED <<customers, updates, campaigns, logs, launches, now, used, preview, recorded,
                   hist, sendRes, batch, message>>

\* POST /vendor/delivery-receipt, or one item of POST /vendor/batch-update;
\* messageId 0 stands for an id no log entry carries.  budget bounds the
\* receipts the environment posts over a run.
ReceiptWebhookUpTo(budget, h, mid, status) ==
    /\ FreeHandler(h)
    /\ used.webhook < budget
    /\ status \in ReceiptStatuses
    /\ mid \in 0..Len(logs)
    /\ used' = [used EXCEPT !.webhook = @ + 1]
    /\ BeginReceipt(h, mid, status)
    /\ UNCHANGED <<customers, updates, campaigns, logs, launches, timers, now, preview, recorded,
                   hist, sendRes, batch, message>>

ReceiptWebhook(h, mid, status) == ReceiptWebhookUpTo(MaxWebhook, h, mid, status)

\* The switch on status: markAsSent / markAsDelivered / markAsFailed and its
\* save().  A save that fails validation throws out of the function.  After
\* markAsDelivered the callback may schedule the simulated open.
ReceiptMark(h, schedule) ==
    /\ handlers[h].pc = "found"
    /\ handlers[h].kind = "receipt"
    /\ LET mid == handlers[h].mid
           status == handlers[h].status
           old == handlers[h].log
           new == CASE status = "sent"      -> markAsSent(old, now)
                    [] status = "delivered" -> markAsDelivered(old, now)
                    [] OTHER                -> markAsFailed(old, now)
       IN  IF ~LogValid(new)
           THEN /\ ~schedule
                /\ handlers' = [handlers EXCEPT ![h] = IdleHandler]
                /\ thrown' = thrown + 1
                /\ UNCHANGED <<logs, hist, timers>>
           ELSE /\ schedule => status = "delivered"
                /\ thrown' = thrown
                /\ logs' = [logs EXCEPT ![mid] = SaveLog(@, old, new)]
                /\ hist' = [hist EXCEPT ![mid] = Append(@, status)]
                /\ timers' = IF schedule
                             THEN SetTimer(timers, <<"opened", mid>>)
                             ELSE timers
                /\ handlers' = [handlers EXCEPT
                       ![h].pc = "marked", ![h].log = new,
                       ![h].dup = (hist[mid] # <<>> /\ hist[mid][Len(hist[mid])] = status)]
    /\ UNCHANGED <<customers, updates, campaigns, launches, now, used, preview, recorded,
                   sendRes, batch, message>>

\* A campaign document is in the collection: created and not removed.
Stored(cid) == cid \in 1..Len(campaigns) /\ campaigns[cid].status # "removed"

\* The campaign lookup that treats a missing campaign as an error.
ReceiptFindCampaignStrict(h) ==
    /\ handlers[h].pc = "marked"
    /\ LET cid == handlers[h].log.campaignId
       IN  /\ handlers' = [handlers EXCEPT ![h] =
                  IF Stored(cid)
                  THEN [@ EXCEPT !.pc = "loaded", !.camp = campaigns[cid]]
                  ELSE IdleHandler]
           /\ thrown' = IF Stored(cid) THEN thrown ELSE thrown + 1
    /\ UNCHANGED <<customers, updates, campaigns, logs, launches, timers, now, used, preview,
                   recorded, hist, sendRes, batch, message>>

\* Campaign.findById(communicationLog.campaignId); the aggregate update is
\* skipped when the campaign is not found.
ReceiptFindCampaign(h) ==
    /\ handlers[h].pc = "marked"
    /\ LET cid == handlers[h].log.campaignId
       IN  handlers' = [handlers EXCEPT ![h] =
              IF Stored(cid)
              THEN [@ EXCEPT !.pc = "loaded", !.camp = campaigns[cid]]
              ELSE IdleHandler]
    /\ UNCHANGED <<customers, updates, campaigns, logs, launches, timers, now, used, preview,
                   recorded, hist, sendRes, thrown, batch,
                   message>>

\* campaign.updateStats(status === 'bounced' ? 'failed' : status), then the
\* completion check on the handler's copy.
ReceiptUpdateStats(h) ==
    /\ handlers[h].pc = "loaded"
    /\ LET status == IF handlers[h].status = "bounced" THEN "failed"
                     ELSE handlers[h].status
           old == handlers[h].camp
           new == updateStats(old, status)
           cid == handlers[h].log.campaignId
           totalSent == new.stats.sent + new.stats.failed
       IN  /\ campaigns' = [campaigns EXCEPT ![cid] = SaveCampaign(@, old, new)]
           /\ recorded' = [recorded EXCEPT ![cid][status] = @ + 1]
           /\ handlers' = [handlers EXCEPT ![h] =
                  IF totalSent >= new.audienceSize /\ new.status = "running"
                  THEN [@ EXCEPT !.pc = "completing", !.camp = new]
                  ELSE IdleHandler]
    /\ UNCHANGED <<customers, updates, logs, launches, timers, now, used, preview, hist, sendRes, thrown, batch,
                   message>>

\* campaign.complete()
ReceiptComplete(h) ==
    /\ handlers[h].pc = "completing"
    /\ LET old == handlers[h].camp
           new == complete(old, now)
           cid == handlers[h].log.campaignId
       IN  campaigns' = [campaigns EXCEPT ![cid] = SaveCampaign(@, old, new)]
    /\ handlers' = [handlers EXCEPT ![h] = IdleHandler]
    /\ UNCHANGED <<customers, updates, logs, launches, timers, now, used, preview, recorded,
                   hist, sendRes, thrown, batch,
                   message>>

\* ---------------------------------------------------- personalizeMessage
\* A message is a sequence of tokens: literal text, a {...} placeholder, or
\* the two characters $& (which String.prototype.replace reads, in a
\* replacement string, as "the matched substring").
Text(t)        == [kind |-> "text", text |-> t]
Placeholder(t) == [kind |-> "placeholder", text |-> t]
Matched        == [kind |-> "pattern", text |-> "$&"]

TemplateTokens ==
    {Text("Hi "), Placeholder("name"), Placeholder("totalSpent"),
     Placeholder("visitCount"), Placeholder("offer")}

Templates == SeqsUpTo(TemplateTokens, MaxTokens) \ {<<>>}

\* The customers a message is personalized for; a name is 1..100 characters
\* of any kind after trimming.
Recipients ==
    << [name |-> <<Text("Asha")>>, totalSpent |-> 5000, visitCount |-> 3],
       [name |-> <<Text("A"), Matched>>, totalSpent |-> 150000, visitCount |-> 0] >>

\* Number.prototype.toLocaleString('en-IN') on the amounts above.
toLocaleString(n) ==
    CASE n = 0 -> "0" [] n = 5000 -> "5,000" [] n = 150000 -> "1,50,000"

\* The template literal of the amount; "Rs " stands for the rupee sign.
Rupees(n) == Text("Rs " \o toLocaleString(n))

\* String(n) for the visit counts above; customer.visitCount || 0.
NumberText(n) == Text(CASE n = 0 -> "0" [] n = 3 -> "3")

\* The replacement string expanded for one match: $& stands for the match.
RECURSIVE GetSubstitution(_, _)
GetSubstitution(replacement, matched) ==
    IF replacement = <<>> THEN <<>>
    ELSE <<IF Head(replacement) = Matched THEN matched ELSE Head(replacement)>>
         \o GetSubstitution(Tail(replacement), matched)

\* template.replace(/\{name\}/g, replacement): every match, left to right.
RECURSIVE replace(_, _, _)
replace(tokens, name, replacement) ==
    IF tokens = <<>> THEN <<>>
    ELSE (IF Head(tokens) = Placeholder(name)
          THEN GetSubstitution(replacement, Head(tokens))
          ELSE <<Head(tokens)>>)
         \o replace(Tail(tokens), name, replacement)

personalizeMessage(template, customer) ==
    replace(replace(replace(template, "name", customer.name),
                    "totalSpent", <<Rupees(customer.totalSpent)>>),
            "visitCount", <<NumberText(customer.visitCount)>>)

\* launchCampaign's map, or POST /campaigns/preview-message, personalizes a
\* template for a customer.
Personalize(template, r) ==
    /\ message' = [template |-> template, customer |-> r,
                   result |-> personalizeMessage(template, Recipients[r]),
                   done |-> TRUE]
    /\ UNCHANGED <<customers, updates, campaigns, logs, launches, handlers, timers, now, used,
                   preview, recorded, hist, sendRes, thrown, batch>>

\* ------------------------------------------- POST /api/vendor/batch-update
\* The loop takes the next item of the body (the first one when the request
\* arrives) and awaits processDeliveryReceipt(update).  The body is any
\* sequence of 1..MaxItems items with a non-empty messageId and a status of
\* the list; its items are drawn as the loop reaches them.
BatchItem(h, mid, status) ==
    /\ batch.pc \in {"idle", "running"}
    /\ batch.n < MaxItems
    /\ FreeHandler(h)
    /\ status \in ReceiptStatuses
    /\ mid \in 0..Len(logs)
    /\ BeginReceipt(h, mid, status)
    /\ batch' = [batch EXCEPT !.pc = "awaiting", !.n = @ + 1, !.h = h, !.mid = mid,
                              !.status = status, !.base = thrown]
    /\ UNCHANGED <<customers, updates, campaigns, logs, launches, timers, now, used, preview,
                   recorded, hist, sendRes, message>>

\* The batch loop with no try/catch around the item: an item that throws
\* ends the request in the route's error handler.
BatchCollectAborts ==
    /\ batch.pc = "awaiting"
    /\ handlers[batch.h].pc = "idle"
    /\ batch' = IF thrown > batch.base
                THEN [batch EXCEPT !.pc = "failed"]
                ELSE [batch EXCEPT !.pc = "running",
                        !.results = Append(@, [messageId |-> batch.mid,
                                               status |-> "processed"])]
    /\ UNCHANGED <<customers, updates, campaigns, logs, launches, handlers, timers, now, used,
                   preview, recorded, hist, sendRes, thrown, message>>

\* The awaited call has returned or thrown: the try pushes 'processed', the
\* catch pushes 'error', and the loop goes on.
BatchCollect ==
    /\ batch.pc = "awaiting"
    /\ handlers[batch.h].pc = "idle"
    /\ batch' = [batch EXCEPT !.pc = "running",
                    !.results = Append(@, [messageId |-> batch.mid,
                                           status |-> IF thrown > batch.base
                                                      THEN "error"
                                                      ELSE "processed"])]
    /\ UNCHANGED <<customers, updates, campaigns, logs, launches, handlers, timers, now, used,
                   preview, recorded, hist, sendRes, thrown, message>>

\* After the last item: the response with the summary.
BatchRespond ==
    /\ batch.pc = "running"
    /\ LET count(st) == Cardinality({i \in 1..Len(batch.results) :
                                        batch.results[i].status = st})
       IN  batch' = [batch EXCEPT !.pc = "done",
                        !.summary = [total |-> Len(batch.results),
                                     processed |-> count("processed"),
                                     errors |-> count("error")]]
    /\ UNCHANGED <<customers, updates, campaigns, logs, launches, handlers, timers, now, used,
                   preview, recorded, hist, sendRes, thrown, message>>

\* ------------------------------------------------------ engagement events
\* The setTimeout callback of processDeliveryReceipt: markAsOpened on the
\* document the receipt handler holds (status delivered in that copy), then
\* maybe the nested timer for markAsClicked.
OpenedTimer(mid, schedule) ==
    /\ TimerCount(timers, <<"opened", mid>>) > 0
    /\ LET old == [logs[mid] EXCEPT !.status = "delivered"]
           new == markAsOpened(old, now)
       IN  logs' = [logs EXCEPT ![mid] = SaveLog(@, old, new)]
    /\ timers' = IF schedule
                 THEN SetTimer(ClearTimer(timers, <<"opened", mid>>), <<"clicked", mid>>)
                 ELSE ClearTimer(timers, <<"opened", mid>>)
    /\ UNCHANGED <<customers, updates, campaigns, launches, handlers, now, used, preview,
                   recorded, hist, sendRes, thrown, batch,
                   message>>

\* The nested callback: markAsClicked on the same document, opened by now.
ClickedTimer(mid) ==
    /\ TimerCount(timers, <<"clicked", mid>>) > 0
    /\ LET old == [logs[mid] EXCEPT !.status = "opened"]
           new == markAsClicked(old, now)
       IN  logs' = [logs EXCEPT ![mid] = SaveLog(@, old, new)]
    /\ timers' = ClearTimer(timers, <<"clicked", mid>>)
    /\ UNCHANGED <<customers, updates, campaigns, launches, handlers, now, used, preview,
                   recorded, hist, sendRes, thrown, batch,
                   message>>

\* GET /vendor/track/open/:messageId and /track/click/:messageId: findOne.
TrackRequest(h, mid, kind) ==
    /\ FreeHandler(h)
    /\ used.track < MaxTrack
    /\ kind \in {"open", "click"}
    /\ mid \in 0..Len(logs)
    /\ used' = [used EXCEPT !.track = @ + 1]
    /\ handlers' = IF mid = 0 THEN handlers
                   ELSE [handlers EXCEPT ![h] =
                           [IdleHandler EXCEPT !.pc = "found", !.kind = kind,
                                               !.mid = mid, !.log = logs[mid]]]
    /\ UNCHANGED <<customers, updates, campaigns, logs, launches, timers, now, preview, recorded,
                   hist, sendRes, thrown, batch,
                   message>>

\* The tracking routes' markAsOpened() / markAsClicked() on the loaded copy.
TrackMark(h) ==
    /\ handlers[h].pc = "found"
    /\ handlers[h].kind \in {"open", "click"}
    /\ LET mid == handlers[h].mid
           old == handlers[h].log
           new == IF handlers[h].kind = "open" THEN markAsOpened(old, now)
                  ELSE markAsClicked(old, now)
       IN  logs' = [logs EXCEPT ![mid] = SaveLog(@, old, new)]
    /\ handlers' = [handlers EXCEPT ![h] = IdleHandler]
    /\ UNCHANGED <<customers, updates, campaigns, launches, timers, now, used, preview, recorded,
                   hist, sendRes, thrown, batch,
                   message>>

\* ------------------------------------------------------------ next state
\* The requests and callbacks of the pipeline.  No action reads a stored
\* timestamp, so Spec leaves the clock where it is; SpecRetry lets it run.
Next ==
    \/ \E rules \in DispatchRules, launch \in BOOLEAN : CreateCampaign(rules, launch)
    \/ \E l \in LaunchSlots, cid \in 1..MaxCampaigns : LaunchRequest(l, cid)
    \/ \E l \in LaunchSlots : LaunchResolve(l)
    \/ \E l \in LaunchSlots : launchCampaignStart(l)
    \/ \E l \in LaunchSlots : launchCampaignInsert(l)
    \/ \E l \in LaunchSlots, outcome \in {"sent", "failed", "error"} :
          sendMessagesToVendorPost(l, outcome)
    \/ \E l \in LaunchSlots : sendMessagesToVendorRecord(l)
    \/ \E h \in HandlerSlots, mid \in 1..MaxLogs, status \in {"sent", "failed"} :
          ReceiptTimer(h, mid, status)
    \/ \E h \in HandlerSlots, mid \in 0..MaxLogs, status \in ReceiptStatuses :
          ReceiptWebhook(h, mid, status)
    \/ \E h \in HandlerSlots, schedule \in BOOLEAN : ReceiptMark(h, schedule)
    \/ \E h \in HandlerSlots : ReceiptFindCampaign(h)
    \/ \E h \in HandlerSlots : ReceiptUpdateStats(h)
    \/ \E h \in HandlerSlots : ReceiptComplete(h)
    \/ \E mid \in 1..MaxLogs, schedule \in BOOLEAN : OpenedTimer(mid, schedule)
    \/ \E mid \in 1..MaxLogs : ClickedTimer(mid)
    \/ \E h \in HandlerSlots, mid \in 0..MaxLogs, kind \in {"open", "click"} :
          TrackRequest(h, mid, kind)
    \/ \E h \in HandlerSlots : TrackMark(h)

Spec == Init /\ [][Next]_vars

\* One campaign, created with launch: true, whose messages only ever get failure
\* receipts, the first from the simulated vendor and the later ones (the
\* outcomes of renewed attempts) through the webhook, while the clock runs.
\* The receipts are handled one at a time (one handler slot); the dispatcher
\* still runs beside the handler.
NextRetry ==
    \/ Tick
    \/ \E rules \in DispatchRules : Len(campaigns) = 0 /\ CreateCampaign(rules, TRUE)
    \/ \E l \in LaunchSlots : launchCampaignStart(l)
    \/ \E l \in LaunchSlots : launchCampaignInsert(l)
    \/ \E l \in LaunchSlots : sendMessagesToVendorPost(l, "failed")
    \/ \E l \in LaunchSlots : sendMessagesToVendorRecord(l)
    \/ \E mid \in 1..MaxLogs : ReceiptTimer(1, mid, "failed")
    \/ \E mid \in 1..MaxLogs, status \in {"failed", "bounced"} :
          ReceiptWebhookUpTo(MaxFailures, 1, mid, status)
    \/ \E h \in HandlerSlots : ReceiptMark(h, FALSE)
    \/ \E h \in HandlerSlots : ReceiptFindCampaign(h)
    \/ \E h \in HandlerSlots : ReceiptUpdateStats(h)
    \/ \E h \in HandlerSlots : ReceiptComplete(h)

SpecRetry == Init /\ [][NextRetry]_vars

\* The dispatch of one campaign created with launch: true, to one or two
\* recipients: the send loop beside the receipt callbacks the simulated
\* vendor schedules.  No receipt comes from outside.
NextDispatch ==
    \/ \E rules \in DispatchRules \cup PairRules :
          Len(campaigns) = 0 /\ CreateCampaign(rules, TRUE)
    \/ \E l \in LaunchSlots : launchCampaignStart(l)
    \/ \E l \in LaunchSlots : launchCampaignInsert(l)
    \/ \E l \in LaunchSlots, n \in 0..1 : launchCampaignInsertFails(l, n)
    \/ \E l \in LaunchSlots, outcome \in {"sent", "failed", "error"} :
          sendMessagesToVendorPost(l, outcome)
    \/ \E l \in LaunchSlots : sendMessagesToVendorRecord(l)
    \/ \E h \in HandlerSlots, mid \in 1..MaxLogs, status \in {"sent", "failed"} :
          ReceiptTimer(h, mid, status)
    \/ \E h \in HandlerSlots : ReceiptMark(h, FALSE)
    \/ \E h \in HandlerSlots : ReceiptFindCampaign(h)
    \/ \E h \in HandlerSlots : ReceiptUpdateStats(h)
    \/ \E h \in HandlerSlots : ReceiptComplete(h)

SpecDispatch == Init /\ [][NextDispatch]_vars

\* The dispatch of one campaign to two recipients with one receipt callback
\* more in flight than Spec allows, while the clock runs.
ConcurrentSlots == 1..(MaxHandlers + 1)

InitConcurrent == InitWith(MaxHandlers + 1)

NextConcurrent ==
    \/ Tick
    \/ \E rules \in PairRules : Len(campaigns) = 0 /\ CreateCampaign(rules, TRUE)
    \/ \E l \in LaunchSlots : launchCampaignStart(l)
    \/ \E l \in LaunchSlots : launchCampaignInsert(l)
    \/ \E l \in LaunchSlots, outcome \in {"sent", "failed"} :
          sendMessagesToVendorPost(l, outcome)
    \/ \E l \in LaunchSlots : sendMessagesToVendorRecord(l)
    \/ \E h \in ConcurrentSlots, mid \in 1..MaxLogs, status \in {"sent", "failed"} :
          ReceiptTimer(h, mid, status)
    \/ \E h \in ConcurrentSlots : ReceiptMark(h, FALSE)
    \/ \E h \in ConcurrentSlots : ReceiptFindCampaign(h)
    \/ \E h \in ConcurrentSlots : ReceiptUpdateStats(h)
    \/ \E h \in ConcurrentSlots : ReceiptComplete(h)

SpecConcurrent == InitConcurrent /\ [][NextConcurrent]_vars

\* Launch requests for one campaign, beside its creation and its send loop.
NextLaunch ==
    \/ \E rules \in DispatchRules \cup PairRules, launch \in BOOLEAN :
          Len(campaigns) = 0 /\ CreateCampaign(rules, launch)
    \/ \E l \in LaunchSlots, cid \in 1..MaxCampaigns : LaunchRequest(l, cid)
    \/ \E l \in LaunchSlots : LaunchResolve(l)
    \/ \E l \in LaunchSlots : launchCampaignStart(l)
    \/ \E l \in LaunchSlots : launchCampaignInsert(l)
    \/ \E l \in LaunchSlots : sendMessagesToVendorPost(l, "sent")
    \/ \E l \in LaunchSlots : sendMessagesToVendorRecord(l)

SpecLaunch == Init /\ [][NextLaunch]_vars

\* The campaign routes up to the hand-over to the send loop: create, update
\* and launch requests beside each other, while customers are deleted.
NextEdit ==
    \/ \E rules \in DispatchRules \cup PairRules, launch \in BOOLEAN :
          CreateCampaign(rules, launch)
    \/ \E id \in CustomerIds : DeleteCustomer(id)
    \/ \E u \in UpdateSlots, cid \in 1..MaxCampaigns, rules \in DispatchRules \cup PairRules :
          UpdateRequest(u, cid, rules)
    \/ \E u \in UpdateSlots : UpdateResolve(u)
    \/ \E u \in UpdateSlots : UpdateWrite(u)
    \/ \E l \in LaunchSlots, cid \in 1..MaxCampaigns : LaunchRequest(l, cid)
    \/ \E l \in LaunchSlots : LaunchResolve(l)
    \/ \E l \in LaunchSlots : launchCampaignStart(l)
    \/ \E l \in LaunchSlots : launchCampaignInsert(l)

SpecEdit == Init /\ [][NextEdit]_vars

\* The requests that carry an audience rule, with bodies of RequestRules.
NextValidate ==
    \/ \E i \in 1..Len(RequestRules) : Preview(RequestRules[i])
    \/ \E i \in 1..Len(RequestRules) : CreateCampaign(RequestRules[i], FALSE)
    \/ \E u \in UpdateSlots, cid \in 1..MaxCampaigns, i \in 1..Len(RequestRules) :
          UpdateRequest(u, cid, RequestRules[i])
    \/ \E u \in UpdateSlots : UpdateResolve(u)
    \/ \E u \in UpdateSlots : UpdateWrite(u)

SpecValidate == Init /\ [][NextValidate]_vars

\* The audience resolver alone: preview requests over the rules of PreviewRule.
NextAudience ==
    \E choice \in PreviewChoices, logic \in {"AND", "OR"} :
        Preview(PreviewRule(choice, logic))

SpecAudience == Init /\ [][NextAudience]_vars

\* The pipeline on its own: one campaign created with launch: true, the
\* simulated vendor answering every submission, and the receipt timers it
\* scheduled; nothing is posted from outside.  Every submission returns and
\* every pending callback eventually runs.
NextVendor ==
    \/ \E rules \in DispatchRules \cup PairRules \cup EmptyRules :
          Len(campaigns) = 0 /\ CreateCampaign(rules, TRUE)
    \/ \E l \in LaunchSlots : launchCampaignStart(l)
    \/ \E l \in LaunchSlots : launchCampaignInsert(l)
    \/ \E l \in LaunchSlots, outcome \in {"sent", "failed"} :
          sendMessagesToVendorPost(l, outcome)
    \/ \E l \in LaunchSlots : sendMessagesToVendorRecord(l)
    \/ \E h \in HandlerSlots, mid \in 1..MaxLogs, status \in {"sent", "failed"} :
          ReceiptTimer(h, mid, status)
    \/ \E h \in HandlerSlots : ReceiptMark(h, FALSE)
    \/ \E h \in HandlerSlots : ReceiptFindCampaign(h)
    \/ \E h \in HandlerSlots : ReceiptUpdateStats(h)
    \/ \E h \in HandlerSlots : ReceiptComplete(h)

SpecVendor == Init /\ [][NextVendor]_vars /\ WF_vars(NextVendor)

\* One batch-update request for a dispatched campaign; the request's items
\* are the only receipts processed, one after another.
NextBatch ==
    \/ \E rules \in DispatchRules : Len(campaigns) = 0 /\ CreateCampaign(rules, TRUE)
    \/ \E l \in LaunchSlots : launchCampaignStart(l)
    \/ \E l \in LaunchSlots : launchCampaignInsert(l)
    \/ \E l \in LaunchSlots : sendMessagesToVendorPost(l, "sent")
    \/ \E l \in LaunchSlots : sendMessagesToVendorRecord(l)
    \/ \E h \in HandlerSlots, mid \in 0..MaxLogs, status \in {"delivered", "failed"} :
          BatchItem(h, mid, status)
    \/ \E h \in HandlerSlots : ReceiptMark(h, FALSE)
    \/ \E h \in HandlerSlots : ReceiptFindCampaign(h)
    \/ \E h \in HandlerSlots : ReceiptUpdateStats(h)
    \/ \E h \in HandlerSlots : ReceiptComplete(h)
    \/ BatchCollect
    \/ BatchRespond

SpecBatch == Init /\ [][NextBatch]_vars

\* Message personalization over every template and recipient.
NextPersonalize ==
    \E template \in Templates, r \in 1..Len(Recipients) : Personalize(template, r)

SpecPersonalize == Init /\ [][NextPersonalize]_vars

\* Receipts from outside for one dispatched campaign, whose document may be
\* removed meanwhile: the webhook with known and unknown message ids.
NextOrphan ==
    \/ \E rules \in DispatchRules : Len(campaigns) = 0 /\ CreateCampaign(rules, TRUE)
    \/ \E l \in LaunchSlots : launchCampaignStart(l)
    \/ \E l \in LaunchSlots : launchCampaignInsert(l)
    \/ \E l \in LaunchSlots, outcome \in {"sent", "failed"} :
          sendMessagesToVendorPost(l, outcome)
    \/ \E l \in LaunchSlots : sendMessagesToVendorRecord(l)
    \/ \E cid \in 1..MaxCampaigns : RemoveCampaign(cid)
    \/ \E h \in HandlerSlots, mid \in 0..MaxLogs, status \in ReceiptStatuses :
          ReceiptWebhook(h, mid, status)
    \/ \E h \in HandlerSlots : ReceiptMark(h, FALSE)
    \/ \E h \in HandlerSlots : ReceiptFindCampaign(h)
    \/ \E h \in HandlerSlots : ReceiptUpdateStats(h)
    \/ \E h \in HandlerSlots : ReceiptComplete(h)

SpecOrphan == Init /\ [][NextOrphan]_vars

\* ------------------------------------------------------------------ claims
CampaignIds == 1..Len(campaigns)
MessageIds  == 1..Len(logs)
MessagesOf(c) == {m \in MessageIds : logs[m].campaignId = c}

\* Nothing is in flight for campaign c: no dispatcher, no callback, no timer.
Quiescent(c) ==
    /\ \A l \in LaunchSlots : launches[l].pc = "idle" \/ launches[l].cid # c
    /\ \A h \in HandlerSlots : handlers[h].pc = "idle" \/ handlers[h].mid \notin MessagesOf(c)
    /\ \A m \in MessagesOf(c), k \in TimerKinds : TimerCount(timers, <<k, m>>) = 0

\* C1: every campaign has stats.sent + stats.failed <= audienceSize in every
\* reachable state.
C1_SentPlusFailedWithinAudience ==
    \A c \in CampaignIds :
        campaigns[c].stats.sent + campaigns[c].stats.failed <= campaigns[c].audienceSize

\* C2: every campaign has stats.delivered <= stats.sent in every reachable state.
C2_DeliveredWithinSent ==
    \A c \in CampaignIds : campaigns[c].stats.delivered <= campaigns[c].stats.sent

\* C3: a receipt that repeats the one last applied to its log entry changes
\* neither the entry's status and retryCount nor the campaign's counters.
C3_ReceiptIdempotent ==
    [][\A h \in HandlerSlots :
          LET mid == handlers[h].mid
              cid == handlers[h].log.campaignId
          IN  /\ ( /\ handlers[h].kind = "receipt"
                   /\ handlers[h].pc = "found"
                   /\ handlers'[h].pc = "marked"
                   /\ hist[mid] # <<>>
                   /\ hist[mid][Len(hist[mid])] = handlers[h].status )
                 => /\ logs'[mid].status = logs[mid].status
                    /\ logs'[mid].retryCount = logs[mid].retryCount
              /\ ( /\ handlers[h].pc = "loaded"
                   /\ handlers[h].dup
                   /\ handlers'[h] # handlers[h] )
                 => campaigns'[cid].stats = campaigns[cid].stats]_vars

\* C4: the persisted counters of a campaign reflect every outcome recording
\* made for it: each counter equals the number of updateStats calls completed
\* for that counter.
C4_NoLostIncrement ==
    \A c \in CampaignIds :
        \A k \in {"sent", "delivered", "failed"} :
            campaigns[c].stats[k] = recorded[c][k]

\* The forward order of delivery states: pending -> sent -> delivered ->
\* opened -> clicked and pending -> sent -> failed.
Later(a) ==
    CASE a = "pending"   -> {"sent", "delivered", "opened", "clicked", "failed"}
      [] a = "sent"      -> {"delivered", "opened", "clicked", "failed"}
      [] a = "delivered" -> {"opened", "clicked"}
      [] a = "opened"    -> {"clicked"}
      [] OTHER           -> {}

\* C5: the status of a log entry only moves forward: every step leaves it as
\* it is or moves it to a later state of the order.
C5_StatusMonotonic ==
    [][\A m \in MessageIds :
          logs'[m].status = logs[m].status \/ logs'[m].status \in Later(logs[m].status)]_vars

\* C6: the delivery log never holds two entries for the same (campaign,
\* customer) pair.
C6_OneEntryPerRecipient ==
    \A i, j \in MessageIds :
        (logs[i].campaignId = logs[j].campaignId /\ logs[i].customerId = logs[j].customerId)
            => i = j

\* C7: a launched campaign of audience size n whose every message was
\* accepted by the vendor and got one sent receipt, then one delivered
\* receipt and no other ends with stats {sent: n, delivered: n, failed: 0}
\* and status completed.
C7_AllDeliveredFinalState ==
    \A c \in CampaignIds :
        ( /\ campaigns[c].status # "draft"
          /\ Quiescent(c)
          /\ Cardinality(MessagesOf(c)) = campaigns[c].audienceSize
          /\ MessagesOf(c) # {}
          /\ \A m \in MessagesOf(c) :
                sendRes[m] = "sent" /\ hist[m] = <<"sent", "delivered">> )
        => /\ campaigns[c].stats.sent = campaigns[c].audienceSize
           /\ campaigns[c].stats.delivered = campaigns[c].audienceSize
           /\ campaigns[c].stats.failed = 0
           /\ campaigns[c].status = "completed"

\* The customers a rule's i-th condition matches when taken alone.
MatchedAlone(rules, i) ==
    evaluateAudience([conditions |-> <<rules.conditions[i]>>, logic |-> rules.logic])

\* C8: the audience resolved for an AND rule is the intersection of the sets
\* its conditions match alone, for an OR rule their union.
C8_AudienceIsIntersectionOrUnion ==
    preview.done =>
        LET rules == preview.rules
            n == Len(rules.conditions)
        IN  preview.audience =
              IF rules.logic = "AND"
              THEN {id \in DOMAIN customers : \A i \in 1..n : id \in MatchedAlone(rules, i)}
              ELSE {id \in DOMAIN customers : \E i \in 1..n : id \in MatchedAlone(rules, i)}

\* C9: a campaign of audienceSize 1 whose single message got only failed
\* receipts, one per attempt up to retry exhaustion, ends with the entry
\* failed, stats.failed = 1 and status completed.
C9_SingleFailedFinalState ==
    \A c \in CampaignIds :
        ( /\ campaigns[c].audienceSize = 1
          /\ Quiescent(c)
          /\ Cardinality(MessagesOf(c)) = 1
          /\ \A m \in MessagesOf(c) :
                /\ Len(hist[m]) = MaxRetry
                /\ \A i \in 1..Len(hist[m]) : hist[m][i] = "failed" )
        => /\ \A m \in MessagesOf(c) : logs[m].status = "failed"
           /\ campaigns[c].stats.failed = 1
           /\ campaigns[c].status = "completed"

C11_LogBeforeSend ==
    [][/\ \A l \in LaunchSlots :
             (launches[l].pc = "sending" /\ launches'[l].pc = "posted")
                => LET mid == launches[l].msgs[launches[l].i]
                   IN  mid \in 1..Len(logs) /\ logs[mid].campaignId = launches[l].cid
       /\ \A key \in DOMAIN timers :
             (key[1] \in {"sent", "failed"}
                /\ TimerCount(timers', key) < TimerCount(timers, key))
                => \E h \in HandlerSlots :
                      /\ handlers[h].pc = "idle"
                      /\ handlers'[h].pc = "found"
                      /\ handlers'[h].mid = key[2]
                      /\ handlers'[h].log = logs[key[2]]]_vars

\* C11's case reached: a receipt callback has found its entry while the send
\* loop that dispatched the message is still running.
C11_Witness ==
    \E h \in HandlerSlots, l \in LaunchSlots :
        /\ handlers[h].pc = "found"
        /\ handlers[h].kind = "receipt"
        /\ launches[l].pc \in {"sending", "posted"}
        /\ \E i \in 1..Len(launches[l].msgs) : launches[l].msgs[i] = handlers[h].mid

\* No launch request or dispatcher is at work on campaign c.
Dispatched(c) ==
    /\ campaigns[c].status # "draft"
    /\ \A l \in LaunchSlots : launches[l].pc = "idle" \/ launches[l].cid # c

\* C12: after a launch in which the creation of some log entries failed, the
\* recipients left without an entry are counted in stats.failed and every
\* other recipient has an entry that was submitted to the vendor.
C12_InsertFailureSkipsRecipient ==
    \A c \in CampaignIds :
        Dispatched(c) =>
            LET submitted == {m \in MessagesOf(c) : sendRes[m] # "none"}
            IN  /\ submitted = MessagesOf(c)
                /\ Cardinality(submitted) + campaigns[c].stats.failed
                      >= campaigns[c].audienceSize

\* The send loop has made its recording for message m.
DispatcherRecorded(m) ==
    /\ sendRes[m] # "none"
    /\ \A l \in LaunchSlots :
          ~(launches[l].pc = "posted" /\ launches[l].msgs[launches[l].i] = m)

\* C13: once the dispatcher has recorded a send call that failed, the
\* message's log entry is failed and carries retry bookkeeping.
C13_SendFailureMarksEntry ==
    \A m \in MessageIds :
        (sendRes[m] = "error" /\ DispatcherRecorded(m))
            => /\ logs[m].status = "failed"
               /\ logs[m].retryCount >= 1
               /\ logs[m].nextRetryAt # -1

\* The receipts of message m whose updateStats call is done.
ReceiptsRecorded(m) ==
    Len(hist[m]) - Cardinality({h \in HandlerSlots :
                                   /\ handlers[h].kind = "receipt"
                                   /\ handlers[h].mid = m
                                   /\ handlers[h].pc \in {"marked", "loaded"}})

\* C14: for each message at most one recording reaches the campaign
\* counters: never the dispatcher's and a receipt's both.
C14_OneOutcomePerMessage ==
    \A m \in MessageIds :
        (IF DispatcherRecorded(m) THEN 1 ELSE 0) + ReceiptsRecorded(m) <= 1

\* C15: once the recordings made for a campaign are over, the campaign is not
\* running with stats.sent + stats.failed >= audienceSize.
C15_CompletedAtThreshold ==
    \A c \in CampaignIds :
        ( /\ Quiescent(c)
          /\ recorded[c].sent + recorded[c].failed > 0
          /\ campaigns[c].stats.sent + campaigns[c].stats.failed
                >= campaigns[c].audienceSize )
        => (campaigns[c].status # "running" /\ campaigns[c].completedAt # -1)

\* C16: the running -> completed transition of a campaign happens once:
\* completedAt, once written, never changes, and a completed campaign is not
\* made completed again.
C16_CompletedOnce ==
    [][\A c \in CampaignIds :
          /\ campaigns[c].completedAt # -1
                => campaigns'[c].completedAt = campaigns[c].completedAt
          /\ campaigns[c].status = "completed"
                => \A h \in DOMAIN handlers :
                      ~(handlers[h].pc = "completing" /\ handlers'[h].pc = "idle"
                          /\ handlers[h].log.campaignId = c)]_vars

\* C17: right after a launch has created its log entries, their number is
\* the campaign's stored audienceSize.
C17_EntriesMatchAudienceSize ==
    \A l \in LaunchSlots :
        (launches[l].pc = "sending" /\ launches[l].i = 1)
            => Len(launches[l].msgs) = campaigns[launches[l].cid].audienceSize

\* C18: a launch request that finds the campaign not in draft changes
\* nothing: a launch request step leaves campaigns, log entries and vendor
\* timers as they are, and a dispatcher it starts is for a campaign that was
\* in draft.
C18_LaunchOfNonDraftRejected ==
    [][(used'.launch = used.launch + 1 /\ used'.create = used.create)
          => /\ campaigns' = campaigns
             /\ logs' = logs
             /\ timers' = timers
             /\ \A l \in LaunchSlots :
                   launches'[l] # launches[l]
                      => /\ launches'[l].pc = "loaded"
                         /\ campaigns[launches'[l].cid].status = "draft"]_vars

\* C18's case reached: two launches were asked for, the second when the
\* campaign was no longer in draft, and only one dispatch took place.
C18_Witness ==
    /\ used.launch = MaxLaunch
    /\ Len(campaigns) = 1
    /\ campaigns[1].status = "running"
    /\ \A l \in LaunchSlots : launches[l].pc = "idle"
    /\ Len(logs) = campaigns[1].audienceSize
    /\ Len(logs) > 0

\* C19: the audience rule and the audience size of a campaign that is not in
\* draft never change.
C19_RuleImmutableAfterDraft ==
    [][\A c \in CampaignIds :
          campaigns[c].status # "draft"
             => /\ campaigns'[c].audienceRules = campaigns[c].audienceRules
                /\ campaigns'[c].audienceSize = campaigns[c].audienceSize]_vars

\* A rule with at least one condition, every field and operator recognized.
WellFormed(rules) ==
    /\ Len(rules.conditions) > 0
    /\ \A i \in 1..Len(rules.conditions) :
          /\ rules.conditions[i].field \in
                {"totalSpent", "visitCount", "daysSinceLastOrder", "status", "city",
                 "valueCategory"}
          /\ rules.conditions[i].operator \in
                {"gt", "gte", "lt", "lte", "eq", "ne", "in", "nin", "exists"}

C22_RetryCapHandled ==
    /\ \A m \in MessageIds : logs[m].retryCount \in 0..MaxRetry
    /\ thrown = 0

\* C23: a rule with the single condition valueCategory eq c resolves exactly
\* the customers whose category, computed from totalSpent, is c.
C23_ValueCategoryAudience ==
    ( /\ preview.done
      /\ Len(preview.rules.conditions) = 1
      /\ preview.rules.conditions[1].field = "valueCategory"
      /\ preview.rules.conditions[1].operator = "eq" )
    => preview.audience =
          {id \in DOMAIN customers :
              valueCategory(customers[id]) = preview.rules.conditions[1].value}

\* C28: the first, second and third failure of an entry schedule the retry
\* 5, 10 and 20 minutes after the time of processing.
C28_BackoffDelays ==
    [][\A h \in HandlerSlots :
          ( /\ handlers[h].kind = "receipt"
            /\ handlers[h].status \in {"failed", "bounced"}
            /\ handlers[h].pc = "found"
            /\ handlers[h].log.retryCount + 1 \in 1..MaxRetry
            /\ handlers'[h] # handlers[h] )
          => LET k == handlers[h].log.retryCount + 1
                 mid == handlers[h].mid
             IN  logs'[mid].nextRetryAt =
                    now + (CASE k = 1 -> 5 [] k = 2 -> 10 [] OTHER -> 20)]_vars

\* C21: a receipt whose messageId matches no log entry is discarded: the
\* request starts no processing, throws nothing, and changes no campaign and
\* no log entry.
C21_UnknownReceiptDiscarded ==
    [][( /\ used'.webhook = used.webhook + 1
         /\ handlers' = handlers )
       => /\ thrown' = thrown
          /\ campaigns' = campaigns
          /\ logs' = logs
          /\ hist' = hist
          /\ timers' = timers]_vars

\* C21's case reached: a receipt was posted after dispatch and left the
\* entry, the campaign and the callbacks as the dispatcher left them.
C21_Witness ==
    /\ used.webhook = 1
    /\ thrown = 0
    /\ \A h \in DOMAIN handlers : handlers[h] = IdleHandler
    /\ \E m \in MessageIds : hist[m] = <<>> /\ logs[m].status = "pending"
    /\ \E c \in CampaignIds : campaigns[c].stats.sent = 1 /\ Dispatched(c)

\* C25: when the campaign of the entry is not found, processing ends there:
\* the entry's transition stays persisted, the campaigns are untouched and
\* nothing is thrown.
C25_MissingCampaignSkipsAggregate ==
    [][\A h \in DOMAIN handlers :
          ( /\ handlers[h].pc = "marked"
            /\ ~Stored(handlers[h].log.campaignId)
            /\ handlers'[h] # handlers[h] )
          => /\ handlers'[h] = IdleHandler
             /\ thrown' = thrown
             /\ campaigns' = campaigns
             /\ recorded' = recorded
             /\ logs' = logs
             /\ \E i \in 1..Len(hist[handlers[h].mid]) :
                   hist[handlers[h].mid][i] = handlers[h].status]_vars

\* C25's case reached: the campaign was removed after dispatch, a delivered
\* receipt was then applied to its entry and processing has ended.
C25_Witness ==
    \E c \in CampaignIds, m \in MessageIds :
        /\ campaigns[c].status = "removed"
        /\ logs[m].campaignId = c
        /\ hist[m] = <<"delivered">>
        /\ logs[m].status = "delivered"
        /\ recorded[c].delivered = 0
        /\ thrown = 0
        /\ \A h \in DOMAIN handlers : handlers[h] = IdleHandler

\* C26: without any webhook call, an entry that reached sent eventually
\* reaches delivered or one of its refinements.
C26_SentEventuallyDelivered ==
    \A m \in 1..MaxLogs :
        (m \in MessageIds /\ logs[m].status = "sent")
        ~> (m \in MessageIds /\ logs[m].status \in {"delivered", "opened", "clicked"})

\* C30: every launched campaign eventually reaches completed, when every
\* vendor submission returns and every scheduled receipt timer fires.
C30_LaunchedEventuallyCompleted ==
    \A c \in 1..MaxCampaigns :
        (c \in CampaignIds /\ campaigns[c].status = "running")
        ~> (c \in CampaignIds /\ campaigns[c].status = "completed")

\* The step is an open event for entry m: the scheduled open callback runs,
\* or the open tracking route applies markAsOpened.
OpenEvent(m) ==
    \/ TimerCount(timers', <<"opened", m>>) < TimerCount(timers, <<"opened", m>>)
    \/ \E h \in DOMAIN handlers :
          /\ handlers[h].kind = "open" /\ handlers[h].pc = "found"
          /\ handlers[h].mid = m /\ handlers'[h] = IdleHandler

\* The step is a click event for entry m.
ClickEvent(m) ==
    \/ TimerCount(timers', <<"clicked", m>>) < TimerCount(timers, <<"clicked", m>>)
    \/ \E h \in DOMAIN handlers :
          /\ handlers[h].kind = "click" /\ handlers[h].pc = "found"
          /\ handlers[h].mid = m /\ handlers'[h] = IdleHandler

\* C29: an open event changes its entry only from delivered to opened, a
\* click event only from delivered or opened to clicked; either leaves every
\* other entry and every campaign as they are.
C29_EngagementOnlyRefines ==
    [][\A m \in MessageIds :
          /\ OpenEvent(m) =>
                /\ campaigns' = campaigns
                /\ \A k \in MessageIds \ {m} : logs'[k] = logs[k]
                /\ \/ logs'[m] = logs[m]
                   \/ /\ logs[m].status = "delivered"
                      /\ logs'[m] = [logs[m] EXCEPT !.status = "opened"]
          /\ ClickEvent(m) =>
                /\ campaigns' = campaigns
                /\ \A k \in MessageIds \ {m} : logs'[k] = logs[k]
                /\ \/ logs'[m] = logs[m]
                   \/ /\ logs[m].status \in {"delivered", "opened"}
                      /\ logs'[m] = [logs[m] EXCEPT !.status = "clicked"]]_vars

\* C24: the batch loop pushes one result per item, in order, 'error' exactly
\* for an item whose processing threw, and goes on to the next item either
\* way; the summary counts every item once: processed + errors = total.
C24_BatchItemsIsolated ==
    [][/\ ( batch.pc = "awaiting" /\ batch' # batch )
          => /\ batch'.pc = "running"
             /\ batch'.n = batch.n
             /\ Len(batch'.results) = batch.n
             /\ batch'.results[batch.n] =
                   [messageId |-> batch.mid,
                    status |-> IF thrown > batch.base THEN "error" ELSE "processed"]
             /\ \A i \in 1..Len(batch.results) : batch'.results[i] = batch.results[i]
       /\ batch'.pc = "done"
          => /\ batch'.summary.total = batch'.n
             /\ batch'.summary.total = Len(batch'.results)
             /\ batch'.summary.processed + batch'.summary.errors
                   = batch'.summary.total]_vars

\* C24's case reached: a batch of five items in which the fourth threw and
\* the fifth, for the same entry, was applied.
C24_Witness ==
    /\ batch.pc = "done"
    /\ batch.summary = [total |-> 5, processed |-> 4, errors |-> 1]
    /\ batch.results[4].status = "error"
    /\ batch.results[5].status = "processed"
    /\ batch.results[5].messageId \in MessageIds
    /\ logs[batch.results[5].messageId].status = "delivered"
    /\ logs[batch.results[5].messageId].retryCount = MaxRetry
    /\ hist[batch.results[5].messageId][4] = "delivered"

\* The value the customer record holds for a placeholder, as message text.
ValueOf(token, customer) ==
    CASE token = Placeholder("name")       -> customer.name
      [] token = Placeholder("totalSpent") -> <<Rupees(customer.totalSpent)>>
      [] token = Placeholder("visitCount") -> <<NumberText(customer.visitCount)>>
      [] OTHER                             -> <<token>>

RECURSIVE Substituted(_, _)
Substituted(template, customer) ==
    IF template = <<>> THEN <<>>
    ELSE ValueOf(Head(template), customer) \o Substituted(Tail(template), customer)

\* C27: the personalized message is the template with every {name},
\* {totalSpent} and {visitCount} replaced by the customer's value and every
\* other token unchanged, and it contains none of the three placeholders.
C27_PersonalizeReplacesAll ==
    message.done =>
        /\ message.result = Substituted(message.template, Recipients[message.customer])
        /\ \A i \in 1..Len(message.result) :
              message.result[i] \notin {Placeholder("name"), Placeholder("totalSpent"),
                                        Placeholder("visitCount")}

====
